---- MODULE Spec2Model ----
(***************************************************************************)
(* GameHub: the request middleware pipeline (security headers, body-size   *)
(* cap, per-client rate limiter, input validator), the route handlers, the *)
(* RAWG upstream client with its response normalisation, and the graceful  *)
(* shutdown of the HTTP server.                                            *)
(*                                                                         *)
(* Source: src/main.go lines 189-447 (the current revision of the server)  *)
(* and src/rawg_client.go lines 1-276 (the current revision of the client).*)
(* Strings are TLA+ strings; a character is a string of length 1.          *)
(***************************************************************************)
EXTENDS Integers, Sequences, FiniteSets, TLC

VARIABLES
    apiKey,     \* os.Getenv("RAWG_API_KEY"), fixed when the process starts
    upstream,   \* how the RAWG service answers a GET of this process
    clock,      \* real time, in ticks of 1/TicksPerSec second
    limiter,    \* rateLimiter's map[string]int64: client IP -> Unix seconds
    pc,         \* "idle" | "received" | "responded"
    req,        \* the request being served
    resp,       \* the response written for req
    prev,       \* history: per client, when its last request was served and how
    nreq,       \* requests received so far
    nadv,       \* clock advances so far
    srv,        \* startServer: "serving" | "shutdown" | "exited"
    sigAt,      \* the clock when the termination signal was received, or -1
    conns,      \* per connection: its request's state and finishing time
    exitCode,   \* the process's exit status once srv = "exited", else -1
    raw,        \* normaliser check: the provider record given
    out,        \* normaliser check: the records built from raw
    call,       \* client check: the function called and its argument
    ret,        \* client check: <<>> or <<what the call returned>>
    mu,         \* rateLimiter's sync.Mutex: the goroutine holding it, 0 when free
    gor         \* per goroutine in rateLimiter: position, ip, now and outcome

vars == <<apiKey, upstream, clock, limiter, pc, req, resp, prev, nreq, nadv,
          srv, sigAt, conns, exitCode, raw, out, call, ret, mu, gor>>

pipelineVars == <<apiKey, upstream, limiter, pc, req, resp, prev, nreq, nadv>>
serverVars == <<srv, sigAt, conns, exitCode>>
normVars == <<raw, out>>
clientVars == <<call, ret>>
lockVars == <<mu, gor>>

----------------------------------------------------------------------------
(* Bounds of the model *)

TicksPerSec == 2
MaxRequests == 2
MaxAdvances == 1
MaxLimiterRequests == 3
MaxLimiterAdvances == 3
MaxConns == 2
MaxServingTicks == 3
MaxStores == 2
MaxGoroutines == 3
MaxLockAdvances == 2

----------------------------------------------------------------------------
(* Strings *)

Char(s, i) == SubSeq(s, i, i)

\* printable ASCII, codes 32..95 and 97..126 (the backquote, 96, is left out)
PrintableLo ==
    " !\"#$%&'()*+,-./0123456789:;<=>?@ABCDEFGHIJKLMNOPQRSTUVWXYZ[\\]^_"

PrintableHi == "abcdefghijklmnopqrstuvwxyz{|}~"

\* the ASCII code of each printable character
CodeTable ==
    [c \in {Char(PrintableLo, i) : i \in 1..Len(PrintableLo)}
            \cup {Char(PrintableHi, i) : i \in 1..Len(PrintableHi)} |->
        IF \E i \in 1..Len(PrintableLo) : Char(PrintableLo, i) = c
        THEN 31 + (CHOOSE i \in 1..Len(PrintableLo) : Char(PrintableLo, i) = c)
        ELSE 96 + (CHOOSE i \in 1..Len(PrintableHi) : Char(PrintableHi, i) = c)]

Code(c) == CodeTable[c]

Chr(n) == IF n <= 95 THEN Char(PrintableLo, n - 31) ELSE Char(PrintableHi, n - 96)

HexDigits == "0123456789ABCDEF"

HexVal(c) == (CHOOSE i \in 1..16 : Char(HexDigits, i) = c) - 1

ContainsAny(s, chars) ==
    \E i \in 1..Len(s) : \E j \in 1..Len(chars) : Char(s, i) = Char(chars, j)

Contains(s, c) == \E i \in 1..Len(s) : Char(s, i) = c

HasPrefix(s, p) == Len(s) >= Len(p) /\ SubSeq(s, 1, Len(p)) = p

\* the first index >= i of s holding character c, or Len(s)+1
IndexFrom(s, c, i) ==
    IF \E j \in i..Len(s) : Char(s, j) = c
    THEN CHOOSE j \in i..Len(s) :
            /\ Char(s, j) = c
            /\ \A k \in i..(j - 1) : Char(s, k) # c
    ELSE Len(s) + 1

RECURSIVE Rep(_, _)
Rep(s, n) ==
    IF n = 0 THEN ""
    ELSE LET h == Rep(s, n \div 2)
         IN  IF n % 2 = 0 THEN h \o h ELSE h \o h \o s

\* strings.ToLower on ASCII
RECURSIVE ToLower(_)
ToLower(s) ==
    IF s = "" THEN ""
    ELSE LET c == Char(s, 1)
             l == IF Code(c) >= 65 /\ Code(c) <= 90 THEN Chr(Code(c) + 32) ELSE c
         IN  l \o ToLower(SubSeq(s, 2, Len(s)))

\* fmt.Sprintf("%d", n) for n >= 0
RECURSIVE Itoa(_)
Itoa(n) ==
    IF n < 10 THEN Chr(48 + n)
    ELSE Itoa(n \div 10) \o Chr(48 + (n % 10))

\* net/url shouldEscape in encodeQueryComponent mode
Unreserved(c) ==
    \/ Code(c) >= 97 /\ Code(c) <= 122
    \/ Code(c) >= 65 /\ Code(c) <= 90
    \/ Code(c) >= 48 /\ Code(c) <= 57
    \/ c \in {"-", "_", ".", "~"}

\* url.QueryEscape
RECURSIVE QueryEscape(_)
QueryEscape(s) ==
    IF s = "" THEN ""
    ELSE LET c == Char(s, 1)
             e == IF Unreserved(c) THEN c
                  ELSE IF c = " " THEN "+"
                  ELSE "%" \o Char(HexDigits, (Code(c) \div 16) + 1)
                           \o Char(HexDigits, (Code(c) % 16) + 1)
         IN  e \o QueryEscape(SubSeq(s, 2, Len(s)))

\* url.QueryUnescape of a well-formed component
RECURSIVE QueryUnescape(_)
QueryUnescape(s) ==
    IF ~ContainsAny(s, "%+") THEN s
    ELSE LET c == Char(s, 1)
         IN  IF c = "%" /\ Len(s) >= 3
             THEN Chr(16 * HexVal(Char(s, 2)) + HexVal(Char(s, 3)))
                    \o QueryUnescape(SubSeq(s, 4, Len(s)))
             ELSE (IF c = "+" THEN " " ELSE c)
                    \o QueryUnescape(SubSeq(s, 2, Len(s)))

\* url.ParseQuery: the key/value pairs of a raw query, in order
RECURSIVE ParseQuery(_)
ParseQuery(q) ==
    IF q = "" THEN <<>>
    ELSE LET amp  == IndexFrom(q, "&", 1)
             pair == SubSeq(q, 1, amp - 1)
             rest == SubSeq(q, amp + 1, Len(q))
             eq   == IndexFrom(pair, "=", 1)
             kv   == [k |-> QueryUnescape(SubSeq(pair, 1, eq - 1)),
                      v |-> QueryUnescape(SubSeq(pair, eq + 1, Len(pair)))]
         IN  IF pair = "" THEN ParseQuery(rest)
             ELSE <<kv>> \o ParseQuery(rest)

\* gin Context.Query: the first value of the key, "" when absent
Query(params, key) ==
    IF \E i \in 1..Len(params) : params[i].k = key
    THEN params[CHOOSE i \in 1..Len(params) :
                    /\ params[i].k = key
                    /\ \A j \in 1..(i - 1) : params[j].k # key].v
    ELSE ""

----------------------------------------------------------------------------
(* Response normaliser (rawg_client.go) *)

generateStoreURL(storeName, gameName) ==
    LET encodedName == QueryEscape(gameName)
        name == ToLower(storeName)
    IN  CASE name = "steam" ->
                "https://store.steampowered.com/search/?term=" \o encodedName
          [] name = "playstation store" ->
                "https://store.playstation.com/search/" \o encodedName
          [] name = "xbox store" ->
                "https://www.xbox.com/games/search?q=" \o encodedName
          [] name = "nintendo" ->
                "https://www.nintendo.com/search/?q=" \o encodedName \o "&p=1&cat=gme"
          [] name = "gog" ->
                "https://www.gog.com/games?query=" \o encodedName
          [] name = "epic games" ->
                "https://store.epicgames.com/browse?q=" \o encodedName
          [] OTHER ->
                "https://www.google.com/search?q=buy+" \o encodedName \o "+game"

getStores(stores, gameName) ==
    [i \in 1..Len(stores) |->
        [ID    |-> stores[i].Store.ID,
         Name  |-> stores[i].Store.Name,
         URL   |-> generateStoreURL(stores[i].Store.Name, gameName),
         Image |-> stores[i].Store.Image]]

getGenres(genres) == [i \in 1..Len(genres) |-> genres[i].Name]

getPlatforms(platforms) == [i \in 1..Len(platforms) |-> platforms[i].Platform.Name]

\* the Game literal built in the loop of fetchGames
fetchGamesRecord(rawgGame) ==
    [ID              |-> Itoa(rawgGame.ID),
     Title           |-> rawgGame.Name,
     Description     |-> rawgGame.Description,
     BackgroundImage |-> rawgGame.BackgroundImage,
     Genres          |-> getGenres(rawgGame.Genres),
     Rating          |-> rawgGame.Rating,
     RatingTop       |-> rawgGame.RatingTop,
     ReleaseDate     |-> rawgGame.Released,
     Added           |-> rawgGame.Added,
     Metacritic      |-> rawgGame.Metacritic,
     Playtime        |-> rawgGame.Playtime,
     Updated         |-> rawgGame.Updated,
     Reviews         |-> rawgGame.ReviewsCount,
     Platforms       |-> getPlatforms(rawgGame.Platforms),
     Stores          |-> getStores(rawgGame.Stores, rawgGame.Name)]

\* mutant: the copy in fetchGameByID was left without the stores
fetchGameByIDRecord_NoStores(rawgGame) ==
    [fetchGamesRecord(rawgGame) EXCEPT !.Stores = <<>>]

\* the Game literal built by fetchGameByID
fetchGameByIDRecord(rawgGame) ==
    [ID              |-> Itoa(rawgGame.ID),
     Title           |-> rawgGame.Name,
     Description     |-> rawgGame.Description,
     BackgroundImage |-> rawgGame.BackgroundImage,
     Genres          |-> getGenres(rawgGame.Genres),
     Rating          |-> rawgGame.Rating,
     RatingTop       |-> rawgGame.RatingTop,
     ReleaseDate     |-> rawgGame.Released,
     Added           |-> rawgGame.Added,
     Metacritic      |-> rawgGame.Metacritic,
     Playtime        |-> rawgGame.Playtime,
     Updated         |-> rawgGame.Updated,
     Reviews         |-> rawgGame.ReviewsCount,
     Platforms       |-> getPlatforms(rawgGame.Platforms),
     Stores          |-> getStores(rawgGame.Stores, rawgGame.Name)]

----------------------------------------------------------------------------
(* Upstream client (rawg_client.go) *)

baseAPIURL == "https://api.rawg.io/api"

\* mutant: the semicolon is let through as well
validRune_Semicolon(r) ==
    \/ Code(r) >= 97 /\ Code(r) <= 122
    \/ Code(r) >= 65 /\ Code(r) <= 90
    \/ Code(r) >= 48 /\ Code(r) <= 57
    \/ r = "/" \/ r = "-" \/ r = "_" \/ r = "?" \/ r = "=" \/ r = "&" \/ r = ";"

\* the characters validateURL keeps
validRune(r) ==
    \/ Code(r) >= 97 /\ Code(r) <= 122
    \/ Code(r) >= 65 /\ Code(r) <= 90
    \/ Code(r) >= 48 /\ Code(r) <= 57
    \/ r = "/" \/ r = "-" \/ r = "_" \/ r = "?" \/ r = "=" \/ r = "&"

\* the error of validateURL, "" for nil
validateURL(endpoint) ==
    IF ~HasPrefix(endpoint, "/") THEN "endpoint must start with /"
    ELSE IF \E i \in 1..Len(endpoint) : ~validRune(Char(endpoint, i))
    THEN "invalid characters in endpoint"
    ELSE ""

\* makeRequest: one GET of urlStr; up is how the service answers it
makeRequest(urlStr, up) ==
    IF up.kind = "neterr"
    THEN [err |-> "error making request", body |-> up]
    ELSE [err |-> "", body |-> up]

NoFetch == [games |-> <<>>, err |-> "", calls |-> 0, url |-> ""]

fetchGames(endpoint, key, up) ==
    IF validateURL(endpoint) # ""
    THEN [NoFetch EXCEPT !.err = "invalid endpoint: " \o validateURL(endpoint)]
    ELSE IF key = ""
    THEN [NoFetch EXCEPT !.err = "RAWG_API_KEY not configured"]
    ELSE LET urlStr == baseAPIURL \o endpoint
                         \o (IF Contains(endpoint, "?") THEN "&" ELSE "?")
                         \o "key=" \o key \o "&page_size=20"
             r == makeRequest(urlStr, up)
             called == [NoFetch EXCEPT !.calls = 1, !.url = urlStr]
         IN  IF r.err # "" THEN [called EXCEPT !.err = r.err]
             ELSE IF r.body.kind # "json"
             THEN [called EXCEPT !.err = "error parsing response"]
             ELSE [called EXCEPT !.games =
                      [i \in 1..Len(r.body.results) |->
                          fetchGamesRecord(r.body.results[i])]]

\* games holds the *Game returned: <<>> for nil
fetchGameByID(id, key, up) ==
    IF id = "" THEN [NoFetch EXCEPT !.err = "game ID cannot be empty"]
    ELSE LET endpoint == "/games/" \o id
         IN  IF validateURL(endpoint) # ""
             THEN [NoFetch EXCEPT !.err = "invalid game ID: " \o validateURL(endpoint)]
             ELSE IF key = ""
             THEN [NoFetch EXCEPT !.err = "RAWG_API_KEY not configured"]
             ELSE LET urlStr == baseAPIURL \o endpoint \o "?key=" \o key
                      r == makeRequest(urlStr, up)
                      called == [NoFetch EXCEPT !.calls = 1, !.url = urlStr]
                  IN  IF r.err # "" THEN [called EXCEPT !.err = r.err]
                      ELSE IF r.body.kind # "json"
                      THEN [called EXCEPT !.err = "error parsing response"]
                      ELSE [called EXCEPT !.games =
                               <<fetchGameByIDRecord(r.body.game)>>]

----------------------------------------------------------------------------
(* Request context and responses (main.go) *)

NoReq == [ip |-> "", method |-> "", path |-> "", rawQuery |-> "", ctype |-> ""]

NoResp == [status |-> 0, error |-> "", data |-> <<>>, headers |-> <<>>,
           ran |-> <<>>, calls |-> 0, url |-> "", err |-> "", existed |-> FALSE]

\* a gin.Context at the start of the chain: the request, the world it reads
\* (time, limiter map, credential, upstream) and the response being written
NewContext(r, now, lim, key, up) ==
    [req |-> r, now |-> now, limiter |-> lim, key |-> key, up |-> up,
     aborted |-> FALSE, resp |-> NoResp]

\* c.Header(k, v)
Header(c, k, v) ==
    [c EXCEPT !.resp.headers = Append(@, [k |-> k, v |-> v])]

\* c.JSON(status, gin.H{"error": msg}) or c.JSON(status, data)
JSON(c, status, msg, data) ==
    [c EXCEPT !.resp.status = status, !.resp.error = msg, !.resp.data = data]

\* c.AbortWithStatusJSON(status, gin.H{"error": msg})
AbortWithStatusJSON(c, status, msg) ==
    [JSON(c, status, msg, <<>>) EXCEPT !.aborted = TRUE]

HasHeader(r, k) == \E i \in 1..Len(r.headers) : r.headers[i].k = k

Ran(r, name) == \E i \in 1..Len(r.ran) : r.ran[i] = name

----------------------------------------------------------------------------
(* Interceptors (main.go) *)

\* mutant: the three headers of the earlier revision only
securityHeaders_Three(c) ==
    Header(Header(Header(c,
        "X-Content-Type-Options", "nosniff"),
        "X-Frame-Options", "DENY"),
        "X-XSS-Protection", "1; mode=block")

securityHeaders(c) ==
    Header(Header(Header(Header(Header(c,
        "X-Content-Type-Options", "nosniff"),
        "X-Frame-Options", "DENY"),
        "X-XSS-Protection", "1; mode=block"),
        "Strict-Transport-Security", "max-age=31536000; includeSubDomains"),
        "Content-Security-Policy", "default-src 'self'")

\* wraps the body reader; nothing is read or written here
limitBodySize(c) == c

\* time.Now().Unix() at clock t
Unix(t) == t \div TicksPerSec

PurgeAge == 60

\* mutant: the lock is taken without waiting for its holder
TryLock_NoWait(m) == TRUE

\* sync.Mutex: Lock returns once the mutex is free
TryLock(m) == m = 0

\* mutant: the sweep keeps an entry one second too long
purge_Late(lim, now) ==
    [key \in {k \in DOMAIN lim : ~(now - lim[k] > PurgeAge + 1)} |-> lim[key]]

\* the sweep of rateLimiter: delete every entry with now-timestamp > 60
purge(lim, now) ==
    [key \in {k \in DOMAIN lim : ~(now - lim[k] > PurgeAge)} |-> lim[key]]

rateLimiter(c) ==
    LET ip == c.req.ip
        now == Unix(c.now)
        swept == purge(c.limiter, now)
        exists == ip \in DOMAIN swept
        seen == [c EXCEPT !.limiter = swept, !.resp.existed = exists]
    IN  IF exists /\ now - swept[ip] < 1
        THEN AbortWithStatusJSON(seen, 429, "Too many requests")
        ELSE [seen EXCEPT !.limiter =
                 [key \in DOMAIN swept \cup {ip} |->
                     IF key = ip THEN now ELSE swept[key]]]

MaxQueryLen == 1024

\* mutant: the length check is off by one
validateInput_OffByOne(c) ==
    IF Len(c.req.rawQuery) > MaxQueryLen + 1
    THEN AbortWithStatusJSON(c, 400, "Query string too long")
    ELSE IF c.req.method = "POST" /\ c.req.ctype # "application/json"
    THEN AbortWithStatusJSON(c, 415, "Unsupported Media Type")
    ELSE IF LET params == ParseQuery(c.req.rawQuery)
            IN  \E i \in 1..Len(params) : ContainsAny(params[i].k, "<>{}[]\\")
    THEN AbortWithStatusJSON(c, 400, "Invalid characters in parameters")
    ELSE c

\* mutant: the parameter names are checked before the Content-Type
validateInput_NamesFirst(c) ==
    IF Len(c.req.rawQuery) > MaxQueryLen
    THEN AbortWithStatusJSON(c, 400, "Query string too long")
    ELSE IF LET params == ParseQuery(c.req.rawQuery)
            IN  \E i \in 1..Len(params) : ContainsAny(params[i].k, "<>{}[]\\")
    THEN AbortWithStatusJSON(c, 400, "Invalid characters in parameters")
    ELSE IF c.req.method = "POST" /\ c.req.ctype # "application/json"
    THEN AbortWithStatusJSON(c, 415, "Unsupported Media Type")
    ELSE c

validateInput(c) ==
    IF Len(c.req.rawQuery) > MaxQueryLen
    THEN AbortWithStatusJSON(c, 400, "Query string too long")
    ELSE IF c.req.method = "POST" /\ c.req.ctype # "application/json"
    THEN AbortWithStatusJSON(c, 415, "Unsupported Media Type")
    ELSE IF LET params == ParseQuery(c.req.rawQuery)
            IN  \E i \in 1..Len(params) : ContainsAny(params[i].k, "<>{}[]\\")
    THEN AbortWithStatusJSON(c, 400, "Invalid characters in parameters")
    ELSE c

----------------------------------------------------------------------------
(* Route handlers (main.go) *)

\* the result of an upstream fetch, noted in the context
Fetched(c, r) ==
    [c EXCEPT !.resp.calls = @ + r.calls, !.resp.url = r.url, !.resp.err = r.err]

\* mutant: the upstream error's text is sent to the caller
handleResponse_Leak(c, data, err) ==
    IF err # "" THEN JSON(c, 500, err, <<>>)
    ELSE JSON(c, 200, "", data)

handleResponse(c, data, err) ==
    IF err # "" THEN JSON(c, 500, "Internal server error", <<>>)
    ELSE JSON(c, 200, "", data)

\* getGames, getLatestGames, ...: fetchGames(preset), then handleResponse
collection(c, endpoint) ==
    LET r == fetchGames(endpoint, c.key, c.up)
    IN  handleResponse(Fetched(c, r), r.games, r.err)

getGames(c) == collection(c, "/games")

getLatestGames(c) == collection(c, "/games?ordering=-released")

getPopularGames(c) == collection(c, "/games?ordering=-rating")

getMetacriticGames(c) == collection(c, "/games?ordering=-metacritic")

getUpcomingGames(c) ==
    collection(c, "/games?dates=2024-03-26,2025-03-26&ordering=released")

\* mutant: the empty query is not refused
searchGames_NoCheck(c) ==
    collection(c, "/games?search=" \o Query(ParseQuery(c.req.rawQuery), "q"))

searchGames(c) ==
    LET query == Query(ParseQuery(c.req.rawQuery), "q")
    IN  IF query = "" THEN JSON(c, 400, "Search query is required", <<>>)
        ELSE collection(c, "/games?search=" \o query)

\* c.Param("id") on the route /games/:id
Param(path) == SubSeq(path, Len("/games/") + 1, Len(path))

getGameByID(c) ==
    LET r == fetchGameByID(Param(c.req.path), c.key, c.up)
        f == Fetched(c, r)
    IN  IF r.err # "" THEN JSON(f, 500, "Failed to fetch game", <<>>)
        ELSE IF r.games = <<>> THEN JSON(f, 404, "Game not found", <<>>)
        ELSE JSON(f, 200, "", r.games)

\* gin's answer when no route matches (the interceptors still run)
noRoute(c) == JSON(c, 404, "404 page not found", <<>>)

CollectionRoutes ==
    {"/games", "/games/latest", "/games/popular", "/games/metacritic",
     "/games/upcoming"}

\* setupRoutes: the name of the handler of a request
setupRoutes(method, path) ==
    IF method # "GET" THEN "noRoute"
    ELSE CASE path = "/games" -> "getGames"
           [] path = "/games/latest" -> "getLatestGames"
           [] path = "/games/popular" -> "getPopularGames"
           [] path = "/games/metacritic" -> "getMetacriticGames"
           [] path = "/games/upcoming" -> "getUpcomingGames"
           [] path = "/games/search" -> "searchGames"
           [] OTHER ->
                IF /\ HasPrefix(path, "/games/")
                   /\ Len(path) > Len("/games/")
                   /\ ~Contains(Param(path), "/")
                THEN "getGameByID"
                ELSE "noRoute"

\* mutant: the input validator is registered before the rate limiter
initializeServer_ValidateFirst ==
    <<"securityHeaders", "limitBodySize", "validateInput", "rateLimiter">>

\* initializeServer: the interceptors, in the order of the r.Use calls
initializeServer ==
    <<"securityHeaders", "limitBodySize", "rateLimiter", "validateInput">>

\* one handler of the chain
Call(name, c) ==
    CASE name = "securityHeaders" -> securityHeaders(c)
      [] name = "limitBodySize" -> limitBodySize(c)
      [] name = "rateLimiter" -> rateLimiter(c)
      [] name = "validateInput" -> validateInput(c)
      [] name = "getGames" -> getGames(c)
      [] name = "getLatestGames" -> getLatestGames(c)
      [] name = "getPopularGames" -> getPopularGames(c)
      [] name = "getMetacriticGames" -> getMetacriticGames(c)
      [] name = "getUpcomingGames" -> getUpcomingGames(c)
      [] name = "searchGames" -> searchGames(c)
      [] name = "getGameByID" -> getGameByID(c)
      [] OTHER -> noRoute(c)

\* mutant: the chain goes on after an abort
RECURSIVE Next_NoAbort(_, _)
Next_NoAbort(handlers, c) ==
    IF handlers = <<>> THEN c
    ELSE Next_NoAbort(Tail(handlers),
               Call(Head(handlers), [c EXCEPT !.resp.ran = Append(@, Head(handlers))]))

\* gin's c.Next(): run the handlers in order until one aborts
RECURSIVE Next_(_, _)
Next_(handlers, c) ==
    IF handlers = <<>> \/ c.aborted THEN c
    ELSE Next_(Tail(handlers),
               Call(Head(handlers), [c EXCEPT !.resp.ran = Append(@, Head(handlers))]))

\* the engine serving one request
ServeHTTP(r, now, lim, key, up) ==
    Next_(initializeServer \o <<setupRoutes(r.method, r.path)>>,
          NewContext(r, now, lim, key, up))

----------------------------------------------------------------------------
(* Inputs *)

IPs == {"10.0.0.1", "10.0.0.2"}

Paths ==
    CollectionRoutes \cup {"/games/search", "/games/3498", "/games/a;b", "/nope"}

\* a raw query of 1025 characters
LongQuery == "q=halo&pad=" \o Rep("a", MaxQueryLen - 10)

\* a raw query of exactly 1024 characters
FullQuery == "q=halo&pad=" \o Rep("a", MaxQueryLen - 11)

\* a search text that, once decoded, holds a parameter separator
InjectQuery == "q=halo%26ordering%3D-rating"

RawQueries ==
    {"", "q=", "q=halo", "q=gta+v", InjectQuery, "a%3Cb=1", FullQuery, LongQuery}

Requests ==
    [ip : IPs, method : {"GET", "POST"}, path : Paths, rawQuery : RawQueries,
     ctype : {"application/json", "text/plain"}]

LimiterRequests ==
    [ip : IPs, method : {"GET"}, path : {"/games"}, rawQuery : {"", LongQuery},
     ctype : {"application/json"}]

RAWGStoreOf(id, name, url) ==
    [Store |-> [ID |-> id, Name |-> name, URL |-> url, Image |-> "https://media.rawg.io/s.jpg"]]

\* a decoded provider object
RAWGGameOf(id, name, stores) ==
    [ID |-> id, Name |-> name, Released |-> "2013-09-17",
     BackgroundImage |-> "https://media.rawg.io/g.jpg", Rating |-> 448,
     RatingTop |-> 5, Added |-> 20000, Metacritic |-> 97, Playtime |-> 73,
     Updated |-> "2024-01-01T00:00:00", ReviewsCount |-> 6000,
     Description |-> "",
     Genres |-> <<[ID |-> 4, Name |-> "Action"], [ID |-> 3, Name |-> "Adventure"]>>,
     Platforms |-> <<[Platform |-> [ID |-> 4, Name |-> "PC"]]>>,
     Stores |-> stores]

GameA ==
    RAWGGameOf(3498, "GTA V",
        <<RAWGStoreOf(1, "Steam", "https://store.steampowered.com/app/271590"),
          RAWGStoreOf(9, "itch.io", "")>>)

\* what a JSON object without the fields decodes to: Go's zero values
GameZero ==
    [ID |-> 0, Name |-> "", Released |-> "", BackgroundImage |-> "", Rating |-> 0,
     RatingTop |-> 0, Added |-> 0, Metacritic |-> 0, Playtime |-> 0,
     Updated |-> "", ReviewsCount |-> 0, Description |-> "", Genres |-> <<>>,
     Platforms |-> <<>>, Stores |-> <<>>]

\* kind: "neterr" (client.Do fails), "garbage" (json.Unmarshal fails) or
\* "json": game is the body decoded as RAWGGame, results as RAWGResponse.Results
UpstreamReplies ==
    {[kind |-> "neterr", game |-> GameZero, results |-> <<>>],
     [kind |-> "garbage", game |-> GameZero, results |-> <<>>],
     [kind |-> "json", game |-> GameA, results |-> <<GameA, GameZero>>],
     [kind |-> "json", game |-> GameZero, results |-> <<>>]}

----------------------------------------------------------------------------
(* The server handling requests, one at a time *)

\* per client: t, the clock of its last request; admitted, whether the limiter
\* let that one through; rec, the clock of its last admitted request (-1:
\* none); status, the status code that request was answered with
NoEntry == [t |-> -1, admitted |-> FALSE, rec |-> -1, status |-> 0]

\* a connection slot: state is "free", "active" (its request is being
\* handled), "done" (answered in full) or "killed" (cut by the process's exit)
FreeConn == [state |-> "free", acceptedAt |-> -1, finishAt |-> -1, afterSignal |-> FALSE]

InitServerVars ==
    /\ srv = "serving"
    /\ sigAt = -1
    /\ conns = [c \in 1..MaxConns |-> FreeConn]
    /\ exitCode = -1

InitNormVars ==
    /\ raw = GameZero
    /\ out = <<>>

InitClientVars ==
    /\ call = [fn |-> "", arg |-> ""]
    /\ ret = <<>>

\* no request is inside rateLimiter
IdleGoroutine == [pc |-> "idle", ip |-> "", now |-> -1, outcome |-> ""]

InitLockVars ==
    /\ mu = 0
    /\ gor = [g \in 1..MaxGoroutines |-> IdleGoroutine]

InitPipeline ==
    /\ clock = 0
    /\ limiter = [k \in {} |-> 0]
    /\ pc = "idle"
    /\ req = NoReq
    /\ resp = NoResp
    /\ prev = [i \in IPs |-> NoEntry]
    /\ nreq = 0
    /\ nadv = 0

Init ==
    /\ apiKey \in {"", "k3y"}
    /\ upstream \in UpstreamReplies
    /\ InitPipeline
    /\ InitServerVars
    /\ InitClientVars
    /\ InitLockVars
    /\ InitNormVars

\* a request reaches the server
Arrive(r) ==
    /\ pc = "idle"
    /\ pc' = "received"
    /\ req' = r
    /\ nreq' = nreq + 1
    /\ UNCHANGED <<apiKey, upstream, clock, limiter, resp, prev, nadv>>
    /\ UNCHANGED <<serverVars, normVars, clientVars, lockVars>>

\* the engine runs the chain on the request and writes the response
Serve ==
    /\ pc = "received"
    /\ LET c == ServeHTTP(req, clock, limiter, apiKey, upstream)
       IN  /\ resp' = c.resp
           /\ limiter' = c.limiter
    /\ pc' = "responded"
    /\ UNCHANGED <<apiKey, upstream, clock, req, prev, nreq, nadv>>
    /\ UNCHANGED <<serverVars, normVars, clientVars, lockVars>>

\* the client has its response
Complete ==
    /\ pc = "responded"
    /\ prev' = [prev EXCEPT ![req.ip] =
                  [t |-> clock,
                   admitted |-> Ran(resp, "validateInput"),
                   rec |-> IF Ran(resp, "validateInput") THEN clock ELSE @.rec,
                   status |-> resp.status]]
    /\ pc' = "idle"
    /\ req' = NoReq
    /\ resp' = NoResp
    /\ UNCHANGED <<apiKey, upstream, clock, limiter, nreq, nadv>>
    /\ UNCHANGED <<serverVars, normVars, clientVars, lockVars>>

\* d ticks pass between two requests
Tick(d) ==
    /\ pc = "idle"
    /\ clock' = clock + d
    /\ nadv' = nadv + 1
    /\ UNCHANGED <<apiKey, upstream, limiter, pc, req, resp, prev, nreq>>
    /\ UNCHANGED <<serverVars, normVars, clientVars, lockVars>>

ArriveAny == \E r \in Requests : nreq < MaxRequests /\ Arrive(r)

Advance == \E d \in {TicksPerSec} : nadv < MaxAdvances /\ Tick(d)

Next == ArriveAny \/ Serve \/ Complete \/ Advance

Spec == Init /\ [][Next]_vars

----------------------------------------------------------------------------
(* The rate limiter under fine-grained time *)

Gaps ==
    {1, TicksPerSec, PurgeAge * TicksPerSec, PurgeAge * TicksPerSec + 1,
     (PurgeAge + 1) * TicksPerSec}

InitLimiter ==
    /\ apiKey = "k3y"
    /\ upstream = [kind |-> "json", game |-> GameA, results |-> <<GameA, GameZero>>]
    /\ InitPipeline
    /\ InitServerVars
    /\ InitClientVars
    /\ InitLockVars
    /\ InitNormVars

ArriveLimiter == \E r \in LimiterRequests : nreq < MaxLimiterRequests /\ Arrive(r)

AdvanceLimiter == \E d \in Gaps : nadv < MaxLimiterAdvances /\ Tick(d)

NextLimiter == ArriveLimiter \/ Serve \/ Complete \/ AdvanceLimiter

SpecLimiter == InitLimiter /\ [][NextLimiter]_vars

----------------------------------------------------------------------------
(* Claims *)

Responded == pc = "responded"

\* the limiter let the request through
Admitted == Ran(resp, "validateInput")

\* the route handler of the request was executed
HandlerRan == Ran(resp, setupRoutes(req.method, req.path))

\* C1: of two successive requests of one client, the first admitted, the
\* second is rejected with 429 when it comes less than 1 second of real time
\* after the first, and is admitted when it comes 1 second or more after it.
C1_OnePerSecond ==
    (Responded /\ prev[req.ip].admitted) =>
        IF clock - prev[req.ip].t < TicksPerSec
        THEN resp.status = 429
        ELSE Admitted

\* C2: GET /games/{id} whose upstream call succeeds with an object of
\* identifier 0 is answered 404 "Game not found".
C2_ZeroIdNotFound ==
    (/\ Responded
     /\ Ran(resp, "getGameByID")
     /\ resp.calls = 1
     /\ upstream.kind = "json"
     /\ upstream.game.ID = 0) =>
        resp.status = 404 /\ resp.error = "Game not found"

\* the preset the interface table gives each parameterless collection route
C3_Preset(path) ==
    CASE path = "/games" -> "/games"
      [] path = "/games/latest" -> "/games?ordering=-released"
      [] path = "/games/popular" -> "/games?ordering=-rating"
      [] path = "/games/metacritic" -> "/games?ordering=-metacritic"
      [] OTHER -> "/games?dates=2024-03-26,2025-03-26&ordering=released"

\* C3: an admitted request on one of the five parameterless collection
\* routes, with the credential configured and a decodable upstream envelope,
\* reaches the upstream with the route's preset and is answered 200 with the
\* normalised sequence.
C3_CollectionRoutesSucceed ==
    (/\ Responded
     /\ req.method = "GET"
     /\ req.path \in CollectionRoutes
     /\ HandlerRan
     /\ apiKey # ""
     /\ upstream.kind = "json") =>
        /\ resp.status = 200
        /\ resp.calls = 1
        /\ HasPrefix(resp.url, baseAPIURL \o C3_Preset(req.path))
        /\ resp.data = [i \in 1..Len(upstream.results) |->
                           fetchGamesRecord(upstream.results[i])]

\* C4 as stated: a raw query longer than 1024 characters is answered 400 and
\* the route handler never runs, whatever came before.
C4_LongQueryAlways400 ==
    (Responded /\ Len(req.rawQuery) > 1024) =>
        resp.status = 400 /\ ~HandlerRan /\ resp.calls = 0

\* C4 as amended: a raw query longer than 1024 characters is answered 400
\* "Query string too long" when the rate limiter admits the request and 429
\* when it rejects it; in both cases no route handler runs and no upstream
\* call is made.
C4_LongQueryRejected ==
    (Responded /\ Len(req.rawQuery) > 1024) =>
        /\ IF Admitted
           THEN resp.status = 400 /\ resp.error = "Query string too long"
           ELSE resp.status = 429
        /\ ~HandlerRan
        /\ resp.calls = 0

C4_Witness ==
    /\ Responded
    /\ Len(req.rawQuery) > 1024
    /\ resp.status = 400
    /\ prev[req.ip].t >= 0

\* C5 as stated: a POST whose Content-Type is not application/json is
\* answered 415 whatever the path and the rest of the request.
C5_PostAlways415 ==
    (Responded /\ req.method = "POST" /\ req.ctype # "application/json") =>
        resp.status = 415

\* C5 as amended: a POST whose Content-Type is not application/json is
\* answered 415 on every path, registered or not, provided the rate limiter
\* admits it and its raw query is at most 1024 characters; otherwise it is
\* answered 429 (rejected by the limiter) or 400 (query too long).
C5_PostNotJson ==
    (Responded /\ req.method = "POST" /\ req.ctype # "application/json") =>
        /\ ~HandlerRan
        /\ resp.status =
             IF ~Admitted THEN 429
             ELSE IF Len(req.rawQuery) > 1024 THEN 400
             ELSE 415

C5_Witness ==
    /\ Responded
    /\ req.method = "POST"
    /\ req.ctype = "text/plain"
    /\ req.path = "/nope"
    /\ resp.status = 415

\* C6: every rate-limiter check leaves no entry recorded more than 60 seconds
\* before it, and a client whose last recorded request is 61 seconds or more
\* in the past has no entry when its request is evaluated and is admitted as
\* a first-ever request.
C6_PurgeOnEveryCheck ==
    (Responded /\ Ran(resp, "rateLimiter")) =>
        /\ \A k \in DOMAIN limiter : Unix(clock) - limiter[k] <= 60
        /\ (/\ prev[req.ip].rec >= 0
            /\ clock - prev[req.ip].rec >= 61 * TicksPerSec) =>
                /\ ~resp.existed
                /\ Admitted
                /\ limiter[req.ip] = Unix(clock)

C6_Witness ==
    /\ Responded
    /\ prev[req.ip].rec >= 0
    /\ clock - prev[req.ip].rec >= 61 * TicksPerSec
    /\ ~resp.existed
    /\ Admitted
    /\ \E k \in IPs \ {req.ip} : prev[k].rec >= 0 /\ k \notin DOMAIN limiter

\* C8: whenever the upstream client returns an error, a collection handler
\* answers exactly 500 "Internal server error" and the single-item handler
\* exactly 500 "Failed to fetch game", with no data and at most one upstream
\* call, whichever error it was.
C8_UpstreamErrorIs500 ==
    (Responded /\ HandlerRan /\ resp.err # "") =>
        /\ resp.status = 500
        /\ resp.error = IF Ran(resp, "getGameByID") THEN "Failed to fetch game"
                        ELSE "Internal server error"
        /\ resp.data = <<>>
        /\ resp.calls <= 1

C8_Witness ==
    /\ Responded
    /\ Ran(resp, "getGameByID")
    /\ resp.err = "error making request"
    /\ resp.calls = 1
    /\ resp.status = 500

SecurityHeaderNames ==
    {"X-Content-Type-Options", "X-Frame-Options", "X-XSS-Protection",
     "Strict-Transport-Security", "Content-Security-Policy"}

\* C9: every response of the pipeline, the terminal 429, 400 and 415
\* included, carries the five security headers, and the security-headers
\* interceptor never ends a request: the next interceptor always runs.
C9_SecurityHeadersAlways ==
    Responded =>
        /\ \A h \in SecurityHeaderNames : HasHeader(resp, h)
        /\ resp.status # 0
        /\ Ran(resp, "securityHeaders")
        /\ Ran(resp, "limitBodySize")

C9_Witness ==
    /\ Responded
    /\ resp.status = 429
    /\ \A h \in SecurityHeaderNames : HasHeader(resp, h)

\* the request is a GET of /games/search whose q is absent or empty
C11_NoSearchText ==
    /\ req.method = "GET"
    /\ req.path = "/games/search"
    /\ Query(ParseQuery(req.rawQuery), "q") = ""

C13_Order ==
    <<"securityHeaders", "limitBodySize", "rateLimiter", "validateInput",
      setupRoutes(req.method, req.path)>>

\* the errors with which the input validator ends a request
C13_ValidatorErrors ==
    {"Query string too long", "Unsupported Media Type",
     "Invalid characters in parameters"}

\* C13: what ran for a request is a prefix of security headers, body-size
\* cap, rate limiter, input validator, route handler, in that order; a
\* request the limiter ends (its client was recorded in the same clock
\* second) stops after the limiter with 429, is never examined by the
\* validator and makes no upstream call; a request the validator ends (too
\* long a query, or a POST that is not JSON) stops after the validator with
\* the validator's 400 or 415 and makes no upstream call; any other request
\* runs all five.
C13_OrderAndShortCircuit ==
    Responded =>
        LET n == Len(resp.ran)
            limited == /\ prev[req.ip].rec >= 0
                       /\ (clock \div TicksPerSec) = (prev[req.ip].rec \div TicksPerSec)
            refused == \/ Len(req.rawQuery) > 1024
                       \/ req.method = "POST" /\ req.ctype # "application/json"
        IN  /\ n \in 3..5
            /\ resp.ran = SubSeq(C13_Order, 1, n)
            /\ limited =>
                  /\ n = 3
                  /\ resp.status = 429
                  /\ ~Ran(resp, "validateInput")
                  /\ resp.calls = 0
            /\ (~limited /\ refused) =>
                  /\ n = 4
                  /\ resp.status \in {400, 415}
                  /\ resp.error \in C13_ValidatorErrors
                  /\ resp.calls = 0
            /\ resp.status = 429 <=> n = 3
            /\ n = 4 <=> (resp.error \in C13_ValidatorErrors)
            /\ resp.calls > 0 => n = 5

\* a valid request with the credential configured, refused by the limiter:
\* neither the validator nor the handler ran, and nothing was fetched
C13_Witness ==
    /\ Responded
    /\ apiKey # ""
    /\ req.method = "GET"
    /\ req.path = "/games"
    /\ req.rawQuery = ""
    /\ resp.status = 429
    /\ resp.ran = <<"securityHeaders", "limitBodySize", "rateLimiter">>
    /\ resp.calls = 0

\* C18: a request the limiter lets through has its client recorded at the
\* current clock second whatever its answer then is (the validator's 400 or
\* 415, a handler's failure); the same client's next request in the same
\* clock second is therefore answered 429 whatever the earlier one's answer
\* was and however valid the new one is; and after a 429 the client's
\* recorded second is still that of its last admitted request.
C18_SlotConsumed ==
    Responded =>
        LET p == prev[req.ip]
            second == clock \div TicksPerSec
        IN  /\ Ran(resp, "validateInput") =>
                  /\ req.ip \in DOMAIN limiter
                  /\ limiter[req.ip] = second
            /\ resp.status \in {400, 415, 500} => Ran(resp, "validateInput")
            /\ (p.admitted /\ p.t \div TicksPerSec = second) =>
                  resp.status = 429
            /\ resp.status = 429 =>
                  /\ p.rec >= 0
                  /\ req.ip \in DOMAIN limiter
                  /\ limiter[req.ip] = p.rec \div TicksPerSec

\* a valid request answered 429 in the second in which the same client's
\* request was let through by the limiter and refused by the validator
C18_Witness ==
    /\ Responded
    /\ apiKey # ""
    /\ upstream.kind = "json"
    /\ req.method = "GET"
    /\ req.path = "/games"
    /\ req.rawQuery = ""
    /\ prev[req.ip].admitted
    /\ prev[req.ip].status = 415
    /\ prev[req.ip].t \div TicksPerSec = clock \div TicksPerSec
    /\ resp.status = 429

\* the path of an outbound URL
C17_PathOf(url) == SubSeq(url, 1, IndexFrom(url, "?", 1) - 1)

\* the parameters of an outbound URL, as the service parses them
C17_ParamsOf(url) == ParseQuery(SubSeq(url, IndexFrom(url, "?", 1) + 1, Len(url)))

\* C17: whenever the search handler makes an upstream call, the outbound
\* path is the games collection and the outbound parameters are exactly
\* search = q, key = the credential, page_size = 20: q adds no parameter,
\* overrides none and does not change the path.
C17_SearchOnlyAsValue ==
    (Responded /\ Ran(resp, "searchGames") /\ resp.calls > 0) =>
        /\ C17_PathOf(resp.url) = "https://api.rawg.io/api/games"
        /\ C17_ParamsOf(resp.url) =
              <<[k |-> "search", v |-> Query(ParseQuery(req.rawQuery), "q")],
                [k |-> "key", v |-> apiKey],
                [k |-> "page_size", v |-> "20"]>>

----------------------------------------------------------------------------
(* The normaliser on bounded provider records *)

StoreNames ==
    {"Steam", "STEAM", "PlayStation Store", "Xbox Store", "Nintendo", "GOG",
     "Epic Games", "itch.io"}

StoreEntries ==
    {RAWGStoreOf(1, n, u) : n \in StoreNames,
                            u \in {"", "https://store.example.com/app/271590"}}

StoreLists == UNION {[1..n -> StoreEntries] : n \in 0..MaxStores}

\* genre lists: empty, two distinct, and one with a repeated entry out of order
GenreLists ==
    {<<>>,
     <<[ID |-> 4, Name |-> "Action"], [ID |-> 3, Name |-> "Adventure"]>>,
     <<[ID |-> 3, Name |-> "Adventure"], [ID |-> 4, Name |-> "Action"],
       [ID |-> 3, Name |-> "Adventure"]>>}

PlatformLists ==
    {<<[Platform |-> [ID |-> 4, Name |-> "PC"]]>>,
     <<[Platform |-> [ID |-> 187, Name |-> "PlayStation 5"]],
       [Platform |-> [ID |-> 4, Name |-> "PC"]],
       [Platform |-> [ID |-> 187, Name |-> "PlayStation 5"]]>>}

RawGames ==
    {[RAWGGameOf(id, name, stores) EXCEPT !.Genres = genres, !.Platforms = platforms] :
        id \in {0, 3498}, name \in {"GTA V", "Halo: Reach"}, stores \in StoreLists,
        genres \in GenreLists, platforms \in PlatformLists}

InitNorm ==
    /\ raw \in RawGames
    /\ out = <<>>
    /\ apiKey = "k3y"
    /\ upstream = [kind |-> "json", game |-> GameZero, results |-> <<>>]
    /\ InitPipeline
    /\ InitServerVars
    /\ InitClientVars
    /\ InitLockVars

\* out: the record of the collection path, then that of the single-item path
Normalize ==
    /\ out = <<>>
    /\ out' = <<fetchGamesRecord(raw), fetchGameByIDRecord(raw)>>
    /\ UNCHANGED <<raw, clock, pipelineVars, serverVars, clientVars, lockVars>>

NextNorm == Normalize

SpecNorm == InitNorm /\ [][NextNorm]_vars

\* C7: for every store entry of a provider record, the purchase URL is the
\* provider's URL when that is non-empty, the URL synthesised from the store
\* name and the game title when it is empty, and never empty.
C7_StoreURL ==
    \A i \in 1..Len(out) : \A j \in 1..Len(raw.Stores) :
        LET given == raw.Stores[j].Store
            link == out[i].Stores[j]
        IN  /\ link.URL # ""
            /\ link.URL = IF given.URL # "" THEN given.URL
                          ELSE generateStoreURL(given.Name, raw.Name)

\* C16: for every provider record the collection path and the single-item
\* path build the same record, field by field, and in both the genres, the
\* platforms and the stores are the provider's, entry for entry, in the
\* provider's order and number.
C16_SameNormalisation ==
    out # <<>> =>
        /\ out[1] = out[2]
        /\ \A i \in 1..2 :
              /\ Len(out[i].Genres) = Len(raw.Genres)
              /\ \A j \in 1..Len(raw.Genres) : out[i].Genres[j] = raw.Genres[j].Name
              /\ Len(out[i].Platforms) = Len(raw.Platforms)
              /\ \A j \in 1..Len(raw.Platforms) :
                    out[i].Platforms[j] = raw.Platforms[j].Platform.Name
              /\ Len(out[i].Stores) = Len(raw.Stores)
              /\ \A j \in 1..Len(raw.Stores) :
                    /\ out[i].Stores[j].ID = raw.Stores[j].Store.ID
                    /\ out[i].Stores[j].Name = raw.Stores[j].Store.Name
                    /\ out[i].Stores[j].Image = raw.Stores[j].Store.Image

\* a record with a repeated genre, a repeated platform and two different
\* stores, normalised on both paths
C16_Witness ==
    /\ out # <<>>
    /\ Len(raw.Genres) = 3
    /\ raw.Genres[1] = raw.Genres[3]
    /\ Len(raw.Platforms) = 3
    /\ Len(raw.Stores) = 2
    /\ raw.Stores[1].Store.Name # raw.Stores[2].Store.Name
    /\ out[1] = out[2]
    /\ out[2].Genres = <<"Adventure", "Action", "Adventure">>
    /\ Len(out[2].Stores) = 2

----------------------------------------------------------------------------
(* startServer: serving, the termination signal, Shutdown under its timeout *)

\* context.WithTimeout(context.Background(), 5*time.Second), in seconds
gracePeriod == 5

\* mutant: the 10 seconds of the server's other timeouts
Deadline_Long == sigAt + 10 * TicksPerSec

\* the clock at which the context of Shutdown expires
Deadline == sigAt + gracePeriod * TicksPerSec

\* the listener is open: ListenAndServe accepts until Shutdown closes it
Listening(state) == state = "serving"

Active(c) == conns[c].state = "active"

\* how long a request takes, in ticks
Works ==
    {1, gracePeriod * TicksPerSec - 1, gracePeriod * TicksPerSec,
     gracePeriod * TicksPerSec + 1}

InitShutdown ==
    /\ apiKey = "k3y"
    /\ upstream = [kind |-> "json", game |-> GameZero, results |-> <<>>]
    /\ InitPipeline
    /\ InitServerVars
    /\ InitClientVars
    /\ InitLockVars
    /\ InitNormVars

\* a connection is accepted and its request, of w ticks, starts
Accept(c, w) ==
    /\ Listening(srv)
    /\ conns[c].state = "free"
    /\ conns' = [conns EXCEPT ![c] =
                    [state |-> "active", acceptedAt |-> clock,
                     finishAt |-> clock + w, afterSignal |-> sigAt >= 0]]
    /\ UNCHANGED <<srv, sigAt, exitCode, clock, pipelineVars, normVars, clientVars, lockVars>>

\* the handler of a connection returns: the response is complete
Finish(c) ==
    /\ srv # "exited"
    /\ Active(c)
    /\ clock = conns[c].finishAt
    /\ conns' = [conns EXCEPT ![c].state = "done"]
    /\ UNCHANGED <<srv, sigAt, exitCode, clock, pipelineVars, normVars, clientVars, lockVars>>

\* SIGINT or SIGTERM is read from quit; srv.Shutdown(ctx) closes the listener
Signal ==
    /\ srv = "serving"
    /\ srv' = "shutdown"
    /\ sigAt' = clock
    /\ UNCHANGED <<conns, exitCode, clock, pipelineVars, normVars, clientVars, lockVars>>

\* Shutdown finds every connection idle and returns nil; main returns
ShutdownReturns ==
    /\ srv = "shutdown"
    /\ \A c \in DOMAIN conns : ~Active(c)
    /\ srv' = "exited"
    /\ exitCode' = 0
    /\ UNCHANGED <<sigAt, conns, clock, pipelineVars, normVars, clientVars, lockVars>>

\* the context expires: Shutdown returns its error and log.Fatal exits,
\* cutting the connections still active
ShutdownTimeout ==
    /\ srv = "shutdown"
    /\ clock >= Deadline
    /\ srv' = "exited"
    /\ exitCode' = 1
    /\ conns' = [c \in DOMAIN conns |->
                    IF Active(c) THEN [conns[c] EXCEPT !.state = "killed"]
                    ELSE conns[c]]
    /\ UNCHANGED <<sigAt, clock, pipelineVars, normVars, clientVars, lockVars>>

\* a tick passes: not past the end of a running handler, not past the expiry
\* of Shutdown's context, and not once the process is gone
TickServer ==
    /\ srv # "exited"
    /\ srv = "serving" => clock < MaxServingTicks
    /\ srv = "shutdown" => clock < Deadline
    /\ \A c \in DOMAIN conns : Active(c) => conns[c].finishAt > clock
    /\ clock' = clock + 1
    /\ UNCHANGED <<srv, sigAt, conns, exitCode, pipelineVars, normVars, clientVars, lockVars>>

AcceptAny == \E c \in DOMAIN conns : \E w \in Works : Accept(c, w)

FinishAny == \E c \in DOMAIN conns : Finish(c)

NextShutdown ==
    AcceptAny \/ FinishAny \/ Signal \/ ShutdownReturns \/ ShutdownTimeout
    \/ TickServer

SpecShutdown == InitShutdown /\ [][NextShutdown]_vars

\* C10: after the termination signal no connection is accepted; a request in
\* flight at the signal that finishes before the 5-second grace period ends
\* is completed; the process has exited, with nothing left in flight, by 5
\* seconds after the signal.
C10_GracefulShutdown ==
    sigAt >= 0 =>
        /\ \A c \in DOMAIN conns : ~conns[c].afterSignal
        /\ \A c \in DOMAIN conns :
              (/\ conns[c].state # "free"
               /\ conns[c].finishAt < sigAt + 5 * TicksPerSec) =>
                  /\ conns[c].state # "killed"
                  /\ srv = "exited" => conns[c].state = "done"
        /\ clock <= sigAt + 5 * TicksPerSec
        /\ srv = "exited" => \A c \in DOMAIN conns : ~Active(c)

C10_Witness ==
    /\ srv = "exited"
    /\ exitCode = 1
    /\ clock = sigAt + 5 * TicksPerSec
    /\ \E c \in DOMAIN conns :
          conns[c].state = "done" /\ conns[c].finishAt > sigAt
    /\ \E c \in DOMAIN conns : conns[c].state = "killed"

----------------------------------------------------------------------------
(* The upstream client called directly *)

Endpoints ==
    {"/games", "/games?ordering=-rating", "/games?search=halo",
     "/games?dates=2024-03-26,2025-03-26&ordering=released",
     "/games;DROP", "/games?search=gta v", "/games/../genres", "games", ""}

GameIDs == {"", "0", "3498", "a;b", "34 98", "../genres"}

Calls ==
    [fn : {"fetchGames"}, arg : Endpoints] \cup [fn : {"fetchGameByID"}, arg : GameIDs]

InitClient ==
    /\ apiKey \in {"", "k3y"}
    /\ upstream \in UpstreamReplies
    /\ call \in Calls
    /\ ret = <<>>
    /\ InitPipeline
    /\ InitServerVars
    /\ InitNormVars
    /\ InitLockVars

CallFetchGames ==
    /\ call.fn = "fetchGames"
    /\ ret = <<>>
    /\ ret' = <<fetchGames(call.arg, apiKey, upstream)>>
    /\ UNCHANGED <<call, clock, pipelineVars, serverVars, normVars, lockVars>>

CallFetchGameByID ==
    /\ call.fn = "fetchGameByID"
    /\ ret = <<>>
    /\ ret' = <<fetchGameByID(call.arg, apiKey, upstream)>>
    /\ UNCHANGED <<call, clock, pipelineVars, serverVars, normVars, lockVars>>

NextClient == CallFetchGames \/ CallFetchGameByID

SpecClient == InitClient /\ [][NextClient]_vars

\* the characters an endpoint may hold
C14_Allowed ==
    "abcdefghijklmnopqrstuvwxyzABCDEFGHIJKLMNOPQRSTUVWXYZ0123456789/_?=&-"

\* the endpoint starts with '/' and holds allowed characters only
C14_Valid(e) ==
    /\ Len(e) >= 1
    /\ SubSeq(e, 1, 1) = "/"
    /\ \A i \in 1..Len(e) :
          \E j \in 1..Len(C14_Allowed) : SubSeq(e, i, i) = SubSeq(C14_Allowed, j, j)

\* the endpoint of the call: the argument of fetchGames, /games/<id> for
\* fetchGameByID
C14_Endpoint == IF call.fn = "fetchGames" THEN call.arg ELSE "/games/" \o call.arg

\* C14: a fetch makes a network call exactly when its endpoint is valid and
\* the credential is non-empty (and, for fetchGameByID, the id is not
\* empty), and never more than one. An empty id fails with "game ID cannot
\* be empty" whatever the credential; otherwise an invalid endpoint fails
\* with the validation error wrapped as invalid endpoint (invalid game ID
\* for fetchGameByID) whatever the credential; otherwise an empty credential
\* fails with "RAWG_API_KEY not configured". In the three cases nothing is
\* fetched and nothing is returned.
C14_FetchGuards ==
    ret # <<>> =>
        LET r == ret[1]
            emptyID == call.fn = "fetchGameByID" /\ call.arg = ""
            valid == C14_Valid(C14_Endpoint)
        IN  /\ r.calls \in {0, 1}
            /\ r.calls = 1 <=> (~emptyID /\ valid /\ apiKey # "")
            /\ r.calls = 0 => (r.url = "" /\ r.games = <<>> /\ r.err # "")
            /\ emptyID => r.err = "game ID cannot be empty"
            /\ (~emptyID /\ ~valid) =>
                  r.err \in
                    IF call.fn = "fetchGames"
                    THEN {"invalid endpoint: invalid characters in endpoint",
                          "invalid endpoint: endpoint must start with /"}
                    ELSE {"invalid game ID: invalid characters in endpoint"}
            /\ (~emptyID /\ valid /\ apiKey = "") =>
                  r.err = "RAWG_API_KEY not configured"

\* an endpoint with a disallowed character, the credential configured, the
\* service ready to answer: the call fails and nothing is fetched
C14_Witness ==
    /\ ret # <<>>
    /\ call = [fn |-> "fetchGames", arg |-> "/games;DROP"]
    /\ apiKey # ""
    /\ upstream.kind = "json"
    /\ ret[1].calls = 0
    /\ ret[1].err = "invalid endpoint: invalid characters in endpoint"

\* C15: whenever a fetch makes its network call, the URL is the base URL,
\* the endpoint, '&' if the endpoint holds a '?' and '?' otherwise, then
\* key=<credential>&page_size=20, followed for a collection query by the
\* store filter &stores=1,2,3,4,5,6,7,8,9,10,11.
C15_OutboundURL ==
    (ret # <<>> /\ ret[1].calls = 1) =>
        ret[1].url =
            "https://api.rawg.io/api" \o C14_Endpoint
            \o (IF \E i \in 1..Len(C14_Endpoint) : SubSeq(C14_Endpoint, i, i) = "?"
                THEN "&" ELSE "?")
            \o "key=" \o apiKey \o "&page_size=20"
            \o (IF call.fn = "fetchGames"
                THEN "&stores=1,2,3,4,5,6,7,8,9,10,11" ELSE "")

----------------------------------------------------------------------------
(* rateLimiter run by concurrent requests, statement by statement *)

InitLock ==
    /\ apiKey = "k3y"
    /\ upstream = [kind |-> "json", game |-> GameZero, results |-> <<>>]
    /\ InitPipeline
    /\ InitServerVars
    /\ InitNormVars
    /\ InitClientVars
    /\ InitLockVars

\* every step of a goroutine leaves the rest of the state alone
LockFrame == UNCHANGED <<apiKey, upstream, pc, req, resp, prev, nreq, nadv,
                         serverVars, normVars, clientVars>>

\* ip := c.ClientIP()
Enter(g, ip) ==
    /\ gor[g].pc = "idle"
    /\ gor' = [gor EXCEPT ![g].pc = "lock", ![g].ip = ip]
    /\ UNCHANGED <<mu, clock, limiter>>
    /\ LockFrame

\* mu.Lock()
Lock(g) ==
    /\ gor[g].pc = "lock"
    /\ TryLock(mu)
    /\ mu' = g
    /\ gor' = [gor EXCEPT ![g].pc = "now"]
    /\ UNCHANGED <<clock, limiter>>
    /\ LockFrame

\* now := time.Now().Unix()
ReadNow(g) ==
    /\ gor[g].pc = "now"
    /\ gor' = [gor EXCEPT ![g].pc = "sweep", ![g].now = Unix(clock)]
    /\ UNCHANGED <<mu, clock, limiter>>
    /\ LockFrame

\* the loop deleting the old entries
Sweep(g) ==
    /\ gor[g].pc = "sweep"
    /\ limiter' = purge(limiter, gor[g].now)
    /\ gor' = [gor EXCEPT ![g].pc = "check"]
    /\ UNCHANGED <<mu, clock>>
    /\ LockFrame

\* if timestamp, exists := limiter[ip]; exists && now-timestamp < 1
Check(g) ==
    /\ gor[g].pc = "check"
    /\ gor' = [gor EXCEPT ![g].pc =
                 IF /\ gor[g].ip \in DOMAIN limiter
                    /\ gor[g].now - limiter[gor[g].ip] < 1
                 THEN "reject" ELSE "store"]
    /\ UNCHANGED <<mu, clock, limiter>>
    /\ LockFrame

\* mu.Unlock(); c.AbortWithStatusJSON(429, ...); return
Reject(g) ==
    /\ gor[g].pc = "reject"
    /\ mu' = 0
    /\ gor' = [gor EXCEPT ![g].pc = "done", ![g].outcome = "rejected"]
    /\ UNCHANGED <<clock, limiter>>
    /\ LockFrame

\* limiter[ip] = now
Store(g) ==
    /\ gor[g].pc = "store"
    /\ limiter' = [key \in DOMAIN limiter \cup {gor[g].ip} |->
                      IF key = gor[g].ip THEN gor[g].now ELSE limiter[key]]
    /\ gor' = [gor EXCEPT ![g].pc = "unlock"]
    /\ UNCHANGED <<mu, clock>>
    /\ LockFrame

\* mu.Unlock(); c.Next()
Unlock(g) ==
    /\ gor[g].pc = "unlock"
    /\ mu' = 0
    /\ gor' = [gor EXCEPT ![g].pc = "done", ![g].outcome = "admitted"]
    /\ UNCHANGED <<clock, limiter>>
    /\ LockFrame

\* time passes while requests are in flight
TickLock(d) ==
    /\ nadv < MaxLockAdvances
    /\ clock' = clock + d
    /\ nadv' = nadv + 1
    /\ UNCHANGED <<apiKey, upstream, limiter, pc, req, resp, prev, nreq>>
    /\ UNCHANGED <<serverVars, normVars, clientVars, lockVars>>

EnterAny == \E g \in 1..MaxGoroutines : \E ip \in IPs : Enter(g, ip)

LockAny == \E g \in 1..MaxGoroutines : Lock(g)

ReadNowAny == \E g \in 1..MaxGoroutines : ReadNow(g)

SweepAny == \E g \in 1..MaxGoroutines : Sweep(g)

CheckAny == \E g \in 1..MaxGoroutines : Check(g)

RejectAny == \E g \in 1..MaxGoroutines : Reject(g)

StoreAny == \E g \in 1..MaxGoroutines : Store(g)

UnlockAny == \E g \in 1..MaxGoroutines : Unlock(g)

AdvanceLock == \E d \in {1, (PurgeAge + 1) * TicksPerSec} : TickLock(d)

NextLock ==
    \/ EnterAny \/ LockAny \/ ReadNowAny \/ SweepAny \/ CheckAny
    \/ RejectAny \/ StoreAny \/ UnlockAny \/ AdvanceLock

SpecLock == InitLock /\ [][NextLock]_vars

\* C12: between mu.Lock() and mu.Unlock() a request is alone: at most one
\* goroutine is at the sweep, the decision or the recording, and it holds
\* the lock; the decision it took still stands when it records (no entry of
\* its client for its second has appeared in between); and of the requests
\* of one client that read the same clock second, at most one is admitted.
C12_AtomicAdmission ==
    /\ \A g, h \in 1..MaxGoroutines :
          (gor[g].pc \in {"now", "sweep", "check", "reject", "store", "unlock"}
           /\ gor[h].pc \in {"now", "sweep", "check", "reject", "store", "unlock"})
             => g = h
    /\ \A g \in 1..MaxGoroutines :
          gor[g].pc \in {"now", "sweep", "check", "reject", "store", "unlock"}
             => mu = g
    /\ \A g \in 1..MaxGoroutines :
          gor[g].pc = "store" =>
             ~(gor[g].ip \in DOMAIN limiter /\ gor[g].now - limiter[gor[g].ip] < 1)
    /\ \A g, h \in 1..MaxGoroutines :
          (/\ gor[g].outcome = "admitted"
           /\ gor[h].outcome = "admitted"
           /\ gor[g].ip = gor[h].ip
           /\ gor[g].now = gor[h].now) => g = h

\* three concurrent requests of one client, all decided in one clock
\* second: one admitted, two rejected
C12_Witness ==
    /\ \A g \in 1..3 : gor[g].pc = "done" /\ gor[g].ip = "10.0.0.1"
    /\ gor[1].now = gor[2].now /\ gor[2].now = gor[3].now
    /\ Cardinality({g \in 1..3 : gor[g].outcome = "admitted"}) = 1
    /\ Cardinality({g \in 1..3 : gor[g].outcome = "rejected"}) = 2
====
